---------------------------- MODULE Spec2Model ----------------------------
(***************************************************************************)
(* A model of mqtt-zabbix.py: the MQTT-to-Zabbix bridge.                   *)
(*                                                                         *)
(* The main thread loads the topic/key map (class KeyMap), installs the    *)
(* signal handler cleanup, calls connect() and then sits in                *)
(* mqttc.loop_forever(), which runs the callbacks on_connect,              *)
(* on_disconnect and on_message one at a time.  The broker client (paho)   *)
(* and the Zabbix sender (zbxsend) are the environment: what they hand to  *)
(* the program (connect results, CONNACK codes, messages, send outcomes)   *)
(* is chosen nondeterministically.                                         *)
(*                                                                         *)
(* Python values keep their type: a payload is a bytes object, "ON" is a   *)
(* str, 1 is an int, and == between different types is False.  Text read   *)
(* from the key file is a tuple of characters, so that split("::") is      *)
(* computed; a payload is a tuple of byte values and decoded text a tuple  *)
(* of code points, so that decode("utf-8") is computed.                    *)
(***************************************************************************)
EXTENDS Integers, Sequences, FiniteSets, TLC

(***************************************************************************)
(* Bounds of the model.                                                    *)
(***************************************************************************)
\* inbound messages delivered in one run
MaxMsgs == 2
\* fixed-delay waits (sleep 30, 5, 10) taken since the last accepted handshake
MaxWaits == 4

(***************************************************************************)
(* Python values.                                                          *)
(***************************************************************************)
PyBytes(b) == [kind |-> "bytes", val |-> b]
PyStr(s) == [kind |-> "str", val |-> s]
PyInt(n) == [kind |-> "int", val |-> <<n>>]

\* Python's ==: objects of different types are never equal
PyEq(a, b) == a.kind = b.kind /\ a.val = b.val

\* the literals of lines 178-181, as code points
ON == <<79, 78>>
OFF == <<79, 70, 70>>

(***************************************************************************)
(* Configuration (lines 23-39).                                            *)
(***************************************************************************)
KEYHOST == <<"m", "o", "n", "i", "t", "o", "r", "0", "1">>
PRESENCETOPIC == "clients/fqdn/mqtt-zabbix/state"
MQTT_TOPIC == "sensors/#"

(***************************************************************************)
(* The routing source: rows of the CSV key file, as csv.reader yields      *)
(* them.  A row is a tuple of fields; the first is the topic, the second   *)
(* the raw "KEY::HOST" value.                                              *)
(***************************************************************************)
RowKitchen == <<"sensors/kitchen/power",
  <<"p", "o", "w", "e", "r", ".", "k", "i", "t", "c", "h", "e", "n", ":", ":", "h", "o", "s", "t", "1">> >>
RowHall == <<"sensors/hall/light",
  <<"l", "i", "g", "h", "t", ".", "h", "a", "l", "l", ":", ":">> >>
RowHallAgain == <<"sensors/hall/light",
  <<"l", "i", "g", "h", "t", ".", "s", "p", "a", "r", "e", ":", ":", "h", "o", "s", "t", "2">> >>
RowNoSeparator == <<"sensors/garage/door",
  <<"d", "o", "o", "r", ".", "g", "a", "r", "a", "g", "e">> >>
RowTwoSeparators == <<"sensors/attic/temp",
  <<"t", "e", "m", "p", ".", "a", "t", "t", "i", "c", ":", ":", "h", "o", "s", "t", "2", ":", ":", "x">> >>
RowOneField == <<"sensors/cellar/damp">>

\* the key files the process may be started with
Keyfiles ==
  { <<RowKitchen, RowHall>>,
    <<RowKitchen, RowNoSeparator>>,
    <<RowHall, RowTwoSeparators>>,
    <<RowHall, RowHallAgain>>,
    <<RowKitchen, RowOneField>>,
    << >> }

\* the payloads a broker message may carry (bytes)
Payloads ==
  { <<79, 78>>,            \* b"ON"
    <<79, 70, 70>>,        \* b"OFF"
    <<50, 49, 46, 53>>,    \* b"21.5"
    <<195, 169>>,          \* e acute, two bytes
    <<226, 130, 172>>,     \* euro sign, three bytes
    <<240, 159, 152, 128>>,\* U+1F600, four bytes
    << >>,                 \* empty payload
    <<255>>,               \* never valid in UTF-8
    <<195>>,               \* truncated two-byte sequence
    <<192, 128>>,          \* overlong encoding of NUL
    <<237, 160, 128>> }    \* encoded surrogate

\* the topics a broker message may arrive on
MsgTopics ==
  { "sensors/kitchen/power", "sensors/hall/light", "sensors/garage/door",
    "sensors/attic/temp", "sensors/unknown" }

Messages == [topic : MsgTopics, payload : {PyBytes(b) : b \in Payloads}]

NoMsg == [topic |-> "", payload |-> PyBytes(<< >>)]

\* what send_to_zabbix may do: write and return True, fail and return
\* False, or raise
SinkOutcomes == {"ok", "false", "raise"}

\* CONNACK return codes the broker may answer with (6: not a known code)
ResultCodes == 0 .. 6

\* what mqttc.connect may do: return 0, return an error code, or raise
ConnectOutcomes == {"ok", "error", "raise"}

\* the signals cleanup is installed for (lines 261-262)
SIGINT == 2
SIGTERM == 15
Signals == {SIGTERM, SIGINT}

\* the exit status of the interpreter after an uncaught exception
UncaughtExit == 1

(***************************************************************************)
(* Effects a handler has, in the order it has them.                        *)
(***************************************************************************)
Log(level, text) == [op |-> "log", level |-> level, text |-> text]
Publish(payload, online) ==
  [op |-> "publish", topic |-> PRESENCETOPIC, payload |-> payload,
   retain |-> TRUE, online |-> online]
Subscribe == [op |-> "subscribe", topic |-> MQTT_TOPIC, qos |-> 2]
Disconnect == [op |-> "disconnect"]
WillSet ==
  [op |-> "will_set", topic |-> PRESENCETOPIC, payload |-> "0", qos |-> 0,
   retain |-> TRUE]
ConnectCall == [op |-> "connect"]
LogSending(topic, payload, host, key) ==
  [op |-> "log", level |-> "info", text |-> "Sending", topic |-> topic,
   payload |-> payload, host |-> host, key |-> key]
Send(host, key, value, outcome) ==
  [op |-> "send", host |-> host, key |-> key, value |-> value,
   outcome |-> outcome]
PrintExc(e) == [op |-> "print", text |-> e]

\* what a handler did: its effects, the exception that left it ("none" when
\* it returned), the status of a sys.exit (<< >> when none) and the seconds
\* of a time.sleep it ends with (0 when none)
Returned(events) ==
  [events |-> events, exc |-> "none", exit |-> << >>, sleep |-> 0]
Raised(events, e) ==
  [events |-> events, exc |-> e, exit |-> << >>, sleep |-> 0]
Exited(events, status) ==
  [events |-> events, exc |-> "none", exit |-> <<status>>, sleep |-> 0]
Sleeping(events, secs) ==
  [events |-> events, exc |-> "none", exit |-> << >>, sleep |-> secs]

(***************************************************************************)
(* str.split("::") on a tuple of characters.                               *)
(***************************************************************************)
RECURSIVE FindSeparator(_, _)
FindSeparator(s, i) ==
  IF i + 1 > Len(s) THEN 0
  ELSE IF s[i] = ":" /\ s[i + 1] = ":" THEN i
  ELSE FindSeparator(s, i + 1)

RECURSIVE split(_)
split(s) ==
  LET i == FindSeparator(s, 1)
  IN  IF i = 0 THEN <<s>>
      ELSE <<SubSeq(s, 1, i - 1)>> \o split(SubSeq(s, i + 2, Len(s)))

(***************************************************************************)
(* bytes.decode("utf-8"), strict: the code points, or a failure.           *)
(***************************************************************************)
IsContinuation(b) == 128 <= b /\ b <= 191

\* the length of the sequence a lead byte announces (0: not a lead byte)
SequenceLength(b) ==
  IF b < 128 THEN 1
  ELSE IF 194 <= b /\ b <= 223 THEN 2
  ELSE IF 224 <= b /\ b <= 239 THEN 3
  ELSE IF 240 <= b /\ b <= 244 THEN 4
  ELSE 0

\* the range the second byte must lie in (overlong forms, surrogates and
\* code points above U+10FFFF are rejected here)
SecondByteOk(b1, b2) ==
  IF b1 = 224 THEN 160 <= b2 /\ b2 <= 191
  ELSE IF b1 = 237 THEN 128 <= b2 /\ b2 <= 159
  ELSE IF b1 = 240 THEN 144 <= b2 /\ b2 <= 191
  ELSE IF b1 = 244 THEN 128 <= b2 /\ b2 <= 143
  ELSE IsContinuation(b2)

CodePoint(b, n) ==
  IF n = 1 THEN b[1]
  ELSE IF n = 2 THEN (b[1] - 192) * 64 + (b[2] - 128)
  ELSE IF n = 3 THEN (b[1] - 224) * 4096 + (b[2] - 128) * 64 + (b[3] - 128)
  ELSE (b[1] - 240) * 262144 + (b[2] - 128) * 4096 + (b[3] - 128) * 64
         + (b[4] - 128)

\* a decoder that takes every byte for a character (latin-1)
decodeLatin1(b) == [ok |-> TRUE, text |-> b]

RECURSIVE decode(_)
decode(b) ==
  IF b = << >> THEN [ok |-> TRUE, text |-> << >>]
  ELSE LET n == SequenceLength(b[1])
       IN  IF n = 0 \/ n > Len(b) THEN [ok |-> FALSE, text |-> << >>]
           ELSE IF n >= 2 /\ ~SecondByteOk(b[1], b[2])
             THEN [ok |-> FALSE, text |-> << >>]
           ELSE IF \E k \in 3 .. n : ~IsContinuation(b[k])
             THEN [ok |-> FALSE, text |-> << >>]
           ELSE LET rest == decode(SubSeq(b, n + 1, Len(b)))
                IN  [ok |-> rest.ok,
                     text |-> <<CodePoint(b, n)>> \o rest.text]

\* str(x) of line 201
str(v) == v

(***************************************************************************)
(* The state.                                                              *)
(***************************************************************************)
VARIABLES
  pc,          \* where the main thread is: "load", "connect", "sleep10",
               \* "loop", "sleep30", "sleep5", "dispatch" (in on_message)
               \* or "exited"
  conn,        \* the broker session of mqttc: "closed", "awaiting" (CONNECT
               \* sent, no CONNACK yet) or "connected"
  exitStatus,  \* << >> while the process runs, <<status>> once it has exited
  keyfile,     \* the rows of KEYFILE
  mapdict,     \* KeyMap.mapdict: topic -> raw "KEY::HOST" value
  willSet,     \* whether mqttc.will_set has been called
  subscribed,  \* whether mqttc.subscribe has been called in this session
  waits,       \* the time.sleep delays taken since the last accepted handshake
  nMsgs,       \* inbound messages delivered to on_message
  nRouted,     \* those whose topic was in mapdict
  nSends,      \* calls of send_to_zabbix
  last         \* the handler that ran last, what it was given and what it did

vars ==
  <<pc, conn, exitStatus, keyfile, mapdict, willSet, subscribed, waits,
    nMsgs, nRouted, nSends, last>>

EmptyMap == [t \in {} |-> << >>]

Ran(handler, msg, arg, r) ==
  [handler |-> handler, msg |-> msg, arg |-> arg, events |-> r.events,
   exc |-> r.exc]

(***************************************************************************)
(* class KeyMap (lines 251-258): dict((rows[0], rows[1]) for rows in       *)
(* reader).  A row with fewer than two fields raises IndexError; a later   *)
(* row for the same topic replaces an earlier one.  Nothing looks at the   *)
(* value.                                                                  *)
(***************************************************************************)
LastRow(rows, t) ==
  CHOOSE i \in 1 .. Len(rows) :
    /\ rows[i][1] = t
    /\ \A j \in (i + 1) .. Len(rows) : rows[j][1] # t

KeyMap(rows) ==
  IF \E i \in 1 .. Len(rows) : Len(rows[i]) < 2
  THEN [exc |-> "IndexError", mapdict |-> EmptyMap]
  ELSE [exc |-> "none",
        mapdict |-> [t \in {rows[i][1] : i \in 1 .. Len(rows)} |->
                       rows[LastRow(rows, t)][2]]]

(***************************************************************************)
(* cleanup(signum, frame) (lines 211-221), called with the arguments       *)
(* `args`: a call with the wrong number of arguments raises TypeError      *)
(* before the body runs.                                                   *)
(***************************************************************************)
\* a cleanup that closes the session before it announces "offline"
cleanupDisconnectsFirst(args) ==
  IF Len(args) # 2 THEN Raised(<< >>, "TypeError")
  ELSE Exited(<<Log("info", "Disconnecting from broker"),
                Disconnect,
                Publish("0", FALSE),
                Log("info", "Exiting on signal")>>,
              args[1])

\* a cleanup without its sys.exit
cleanupReturns(args) ==
  IF Len(args) # 2 THEN Raised(<< >>, "TypeError")
  ELSE Returned(<<Log("info", "Disconnecting from broker"),
                  Publish("0", conn = "connected"),
                  Disconnect,
                  Log("info", "Exiting on signal")>>)

cleanup(args) ==
  IF Len(args) # 2 THEN Raised(<< >>, "TypeError")
  ELSE Exited(<<Log("info", "Disconnecting from broker"),
                Publish("0", conn = "connected"),
                Disconnect,
                Log("info", "Exiting on signal")>>,
              args[1])

(***************************************************************************)
(* on_connect (lines 82-122).                                              *)
(***************************************************************************)
\* an accepted handshake that forgets process_connection
AcceptedSkipsSubscribe ==
  Returned(<<Log("debug", "on_connect RC"),
             Log("info", "Connected"),
             Publish("1", TRUE)>>)

\* result_code == 0 (lines 97-103, with process_connection, lines 162-167)
Accepted ==
  Returned(<<Log("debug", "on_connect RC"),
             Log("info", "Connected"),
             Publish("1", TRUE),
             Log("debug", "Processing connection"),
             Subscribe>>)

\* a refusal branch that waits and lets the client try again
RefusedRetries(level, text) ==
  Sleeping(<<Log("debug", "on_connect RC"), Log(level, text)>>, 30)

\* a refusal branch that calls cleanup with the arguments it wants
RefusedCleansUp(level, text) ==
  LET c == cleanup(<<SIGTERM, "frame">>)
  IN  [events |-> <<Log("debug", "on_connect RC"), Log(level, text)>>
                    \o c.events,
       exc |-> c.exc, exit |-> c.exit, sleep |-> 0]

\* the other refusals (lines 104-109, 114-122): log, then cleanup()
Refused(level, text) ==
  LET c == cleanup(<< >>)
  IN  [events |-> <<Log("debug", "on_connect RC"), Log(level, text)>>
                    \o c.events,
       exc |-> c.exc, exit |-> c.exit, sleep |-> 0]

\* a server-unavailable branch that gives up like the other refusals
UnavailableGivesUp ==
  Refused("info", "Connection refused - server unavailable")

\* result_code == 3 (lines 110-113)
Unavailable ==
  Sleeping(<<Log("debug", "on_connect RC"),
             Log("info", "Connection refused - server unavailable"),
             Log("info", "Retrying in 30 seconds")>>, 30)

on_connect(result_code) ==
  CASE result_code = 0 -> Accepted
    [] result_code = 1 ->
         Refused("info", "Connection refused - unacceptable protocol version")
    [] result_code = 2 ->
         Refused("info", "Connection refused - identifier rejected")
    [] result_code = 3 -> Unavailable
    [] result_code = 4 ->
         Refused("info", "Connection refused - bad user name or password")
    [] result_code = 5 ->
         Refused("info", "Connection refused - not authorised")
    [] OTHER -> Refused("warning", "Something went wrong")

(***************************************************************************)
(* on_disconnect (lines 125-134).                                          *)
(***************************************************************************)
\* an on_disconnect that shuts the bridge down on an unexpected drop
on_disconnectGivesUp(result_code) ==
  IF result_code = 0 THEN Returned(<<Log("info", "Clean disconnection")>>)
  ELSE LET c == cleanup(<<SIGTERM, "frame">>)
       IN  Exited(<<Log("info", "Unexpected disconnection")>> \o c.events,
                  c.exit[1])

on_disconnect(result_code) ==
  IF result_code = 0 THEN Returned(<<Log("info", "Clean disconnection")>>)
  ELSE Sleeping(<<Log("info", "Unexpected disconnection"),
                  Log("debug", "Result code")>>, 5)

(***************************************************************************)
(* process_message (lines 170-208) and on_message (lines 137-149).         *)
(***************************************************************************)
\* lines 178-181: msg.payload compared with the str literals
NormalizeOn(payload) == IF PyEq(payload, PyStr(ON)) THEN PyInt(1) ELSE payload
NormalizeOff(payload) ==
  IF PyEq(payload, PyStr(OFF)) THEN PyInt(0) ELSE payload

\* a host resolution that forgets the default
ResolveHostAsGiven(zbxHost) == zbxHost

\* lines 184-185
ResolveHost(zbxHost) == IF zbxHost = << >> THEN KEYHOST ELSE zbxHost

\* a forwarding that writes its info log line once the send is done
ForwardLogsAfterSend(msg, payload, zbxKey, zbxHost, sink) ==
  LET logged == <<Log("debug", "Processing")>>
  IN  IF payload.kind # "bytes" THEN Raised(logged, "AttributeError")
      ELSE LET payload_str == decode(payload.val)
           IN  IF ~payload_str.ok THEN Raised(logged, "UnicodeDecodeError")
               ELSE LET sent == logged \o
                          <<Send(zbxHost, zbxKey, str(payload_str.text), sink)>>
                    IN  IF sink = "raise" THEN Raised(sent, "OSError")
                        ELSE Returned(sent \o
                               <<LogSending(msg.topic, payload, zbxHost,
                                            zbxKey)>>)

\* a forwarding that tries once more when the send has failed
ForwardRetries(msg, payload, zbxKey, zbxHost, sink) ==
  LET logged == <<Log("debug", "Processing"),
                  LogSending(msg.topic, payload, zbxHost, zbxKey)>>
  IN  IF payload.kind # "bytes" THEN Raised(logged, "AttributeError")
      ELSE LET payload_str == decode(payload.val)
           IN  IF ~payload_str.ok THEN Raised(logged, "UnicodeDecodeError")
               ELSE LET try ==
                          Send(zbxHost, zbxKey, str(payload_str.text), sink)
                    IN  IF sink = "raise"
                        THEN Raised(logged \o <<try>>, "OSError")
                        ELSE IF sink = "false"
                          THEN Returned(logged \o <<try, try>>)
                        ELSE Returned(logged \o <<try>>)

\* lines 186-204: the info log line, the decoding, the call of
\* send_to_zabbix, whose outcome is `sink`
Forward(msg, payload, zbxKey, zbxHost, sink) ==
  LET logged == <<Log("debug", "Processing"),
                  LogSending(msg.topic, payload, zbxHost, zbxKey)>>
  IN  IF payload.kind # "bytes" THEN Raised(logged, "AttributeError")
      ELSE LET payload_str == decode(payload.val)
           IN  IF ~payload_str.ok THEN Raised(logged, "UnicodeDecodeError")
               ELSE LET sent == logged \o
                          <<Send(zbxHost, zbxKey, str(payload_str.text), sink)>>
                    IN  IF sink = "raise" THEN Raised(sent, "OSError")
                        ELSE Returned(sent)

\* an unknown topic forwarded under an empty key to the default host
DiscardForwards(msg) ==
  Returned(<<Log("debug", "Processing"),
             Send(KEYHOST, << >>, << >>, "ok")>>)

\* lines 205-208
Discard(msg) ==
  Returned(<<Log("debug", "Processing"), Log("debug", "Unknown")>>)

process_message(msg, sink) ==
  IF msg.topic \in DOMAIN mapdict
  THEN LET payload == NormalizeOff(NormalizeOn(msg.payload))
           parts == split(mapdict[msg.topic])
       IN  IF Len(parts) # 2
           THEN Raised(<<Log("debug", "Processing")>>, "ValueError")
           ELSE Forward(msg, payload, parts[1], ResolveHost(parts[2]), sink)
  ELSE Discard(msg)

\* the except clause prints the exception and raises it again
on_message(msg, sink) ==
  LET r == process_message(msg, sink)
      received == <<Log("debug", "Received")>> \o r.events
  IN  IF r.exc # "none"
      THEN Raised(received \o <<PrintExc(r.exc)>>, r.exc)
      ELSE Returned(received)

\* line 147: `except Exception` catches what derives from Exception, which
\* SystemExit, KeyboardInterrupt and GeneratorExit do not
ExceptException(e) ==
  e \notin {"SystemExit", "KeyboardInterrupt", "GeneratorExit"}

\* on_message, whose undisturbed run is `run`, when a signal arrives after
\* its k-th effect and the handler does `c`: a sys.exit in the handler
\* raises SystemExit inside on_message, where the except clause either
\* lets it pass or prints it and raises it again; a handler that returns
\* lets on_message go on
interrupted(run, k, c) ==
  LET before == SubSeq(run.events, 1, k) \o c.events
  IN  IF c.exit # << >>
      THEN Exited(before \o (IF ExceptException("SystemExit")
                               THEN <<PrintExc("SystemExit")>> ELSE << >>),
                  c.exit[1])
      ELSE IF c.exc # "none" THEN Raised(before, c.exc)
      ELSE [events |-> before \o SubSeq(run.events, k + 1, Len(run.events)),
            exc |-> run.exc, exit |-> run.exit, sleep |-> run.sleep]

(***************************************************************************)
(* connect() (lines 224-248): will_set, then mqttc.connect, whose outcome  *)
(* is `outcome`.  A non-zero result sleeps 10 seconds and calls connect()  *)
(* again.                                                                  *)
(***************************************************************************)
\* a connect() that registers the last will once mqttc.connect is back
connectBeforeWill(outcome) ==
  LET called == <<Log("debug", "Connecting"), ConnectCall>>
  IN  IF outcome = "raise" THEN Raised(called, "OSError")
      ELSE IF outcome = "error"
        THEN Sleeping(called \o <<WillSet, Log("info", "Connection failed")>>,
                      10)
      ELSE Returned(called \o <<WillSet>>)

connect(outcome) ==
  LET called == <<Log("debug", "Connecting"), WillSet, ConnectCall>>
  IN  IF outcome = "raise" THEN Raised(called, "OSError")
      ELSE IF outcome = "error"
        THEN Sleeping(called \o <<Log("info", "Connection failed")>>, 10)
      ELSE Returned(called)

(***************************************************************************)
(* The main program (lines 260-272).  Nothing catches what a handler       *)
(* raises: only KeyboardInterrupt is caught around loop_forever, so an     *)
(* exception ends the process with the interpreter's status and a          *)
(* sys.exit ends it with the status given.                                 *)
(***************************************************************************)
Ends(r) == r.exit # << >> \/ r.exc # "none"

NextPc(r, cont) == IF Ends(r) THEN "exited" ELSE cont

NextStatus(r) ==
  IF r.exit # << >> THEN r.exit
  ELSE IF r.exc # "none" THEN <<UncaughtExit>>
  ELSE exitStatus

Sends(events) == {i \in 1 .. Len(events) : events[i].op = "send"}

Issued(events, op) == \E i \in 1 .. Len(events) : events[i].op = op

Init ==
  /\ pc = "load"
  /\ conn = "closed"
  /\ exitStatus = << >>
  /\ keyfile \in Keyfiles
  /\ mapdict = EmptyMap
  /\ willSet = FALSE
  /\ subscribed = FALSE
  /\ waits = << >>
  /\ nMsgs = 0
  /\ nRouted = 0
  /\ nSends = 0
  /\ last = [handler |-> "none", msg |-> NoMsg, arg |-> 0, events |-> << >>,
             exc |-> "none"]

\* lines 251-262: the key file is read, then the signal handlers installed
LoadKeyMap ==
  /\ pc = "load"
  /\ LET k == KeyMap(keyfile)
     IN  /\ mapdict' = k.mapdict
         /\ pc' = IF k.exc # "none" THEN "exited" ELSE "connect"
         /\ exitStatus' = IF k.exc # "none" THEN <<UncaughtExit>> ELSE exitStatus
         /\ last' = [handler |-> "KeyMap", msg |-> NoMsg, arg |-> 0,
                     events |-> << >>, exc |-> k.exc]
  /\ UNCHANGED <<conn, keyfile, willSet, subscribed, waits, nMsgs, nRouted,
                 nSends>>

\* line 265, and line 238 after the wait
Connect ==
  /\ pc = "connect"
  /\ \E outcome \in ConnectOutcomes :
       LET r == connect(outcome)
       IN  /\ r.sleep > 0 => Len(waits) < MaxWaits
           /\ willSet' = (willSet \/ Issued(r.events, "will_set"))
           /\ conn' = IF outcome = "ok" THEN "awaiting" ELSE "closed"
           /\ pc' = IF r.sleep > 0 THEN "sleep10" ELSE NextPc(r, "loop")
           /\ exitStatus' = NextStatus(r)
           /\ waits' = IF r.sleep > 0 THEN Append(waits, r.sleep) ELSE waits
           /\ last' = Ran("connect", NoMsg, 0, r)
  /\ UNCHANGED <<keyfile, mapdict, subscribed, nMsgs, nRouted, nSends>>

\* line 237 is over: line 238 calls connect() again
WakeConnect ==
  /\ pc = "sleep10"
  /\ pc' = "connect"
  /\ UNCHANGED <<conn, exitStatus, keyfile, mapdict, willSet, subscribed,
                 waits, nMsgs, nRouted, nSends, last>>

\* loop_forever reads a CONNACK and calls on_connect
ConnAck ==
  /\ pc = "loop"
  /\ conn = "awaiting"
  /\ \E rc \in ResultCodes :
       LET r == on_connect(rc)
       IN  /\ r.sleep > 0 => Len(waits) + 2 <= MaxWaits
           /\ conn' = IF rc = 0 THEN "connected"
                      ELSE IF Ends(r) THEN "closed" ELSE conn
           /\ pc' = IF Ends(r) THEN "exited"
                    ELSE IF rc = 0 THEN "loop" ELSE "sleep30"
           /\ exitStatus' = NextStatus(r)
           /\ waits' = IF rc = 0 THEN << >>
                       ELSE IF r.sleep > 0 THEN Append(waits, r.sleep)
                       ELSE waits
           /\ subscribed' = Issued(r.events, "subscribe")
           /\ last' = Ran("on_connect", NoMsg, rc, r)
  /\ UNCHANGED <<keyfile, mapdict, willSet, nMsgs, nRouted, nSends>>

\* on_connect returns from a refused CONNACK: the client closes the socket
\* and calls on_disconnect with MQTT_ERR_CONN_REFUSED (5)
Wake30 ==
  /\ pc = "sleep30"
  /\ LET r == on_disconnect(5)
     IN  /\ conn' = "closed"
         /\ pc' = IF r.sleep > 0 THEN "sleep5" ELSE NextPc(r, "loop")
         /\ exitStatus' = NextStatus(r)
         /\ waits' = IF r.sleep > 0 THEN Append(waits, r.sleep) ELSE waits
         /\ subscribed' = FALSE
         /\ last' = Ran("on_disconnect", NoMsg, 5, r)
  /\ UNCHANGED <<keyfile, mapdict, willSet, nMsgs, nRouted, nSends>>

\* the session is lost (1: MQTT_ERR_NOMEM ... 7: MQTT_ERR_CONN_LOST):
\* loop_forever calls on_disconnect with the error
Drop ==
  /\ pc = "loop"
  /\ conn = "connected"
  /\ \E rc \in {1, 7} :
       LET r == on_disconnect(rc)
       IN  /\ r.sleep > 0 => Len(waits) < MaxWaits
           /\ conn' = "closed"
           /\ pc' = IF r.sleep > 0 THEN "sleep5" ELSE NextPc(r, "loop")
           /\ exitStatus' = NextStatus(r)
           /\ waits' = IF r.sleep > 0 THEN Append(waits, r.sleep) ELSE waits
           /\ subscribed' = FALSE
           /\ last' = Ran("on_disconnect", NoMsg, rc, r)
  /\ UNCHANGED <<keyfile, mapdict, willSet, nMsgs, nRouted, nSends>>

\* line 134 is over: on_disconnect returns into loop_forever
Wake5 ==
  /\ pc = "sleep5"
  /\ pc' = "loop"
  /\ UNCHANGED <<conn, exitStatus, keyfile, mapdict, willSet, subscribed,
                 waits, nMsgs, nRouted, nSends, last>>

\* loop_forever connects again; a failure to reach the broker is caught
\* inside the client, which tries again
Reconnect ==
  /\ pc = "loop"
  /\ conn = "closed"
  /\ \E outcome \in {"ok", "fail"} :
       /\ conn' = IF outcome = "ok" THEN "awaiting" ELSE "closed"
       /\ last' = Ran("reconnect", NoMsg, 0, Returned(<<ConnectCall>>))
  /\ UNCHANGED <<pc, exitStatus, keyfile, mapdict, willSet, subscribed,
                 waits, nMsgs, nRouted, nSends>>

\* loop_forever reads a PUBLISH and calls on_message with it
Deliver ==
  /\ pc = "loop"
  /\ conn = "connected"
  /\ nMsgs < MaxMsgs
  /\ \E msg \in Messages :
       /\ pc' = "dispatch"
       /\ last' = Ran("deliver", msg, 0, Returned(<< >>))
  /\ UNCHANGED <<conn, exitStatus, keyfile, mapdict, willSet, subscribed,
                 waits, nMsgs, nRouted, nSends>>

\* an on_message that writes the resolved host back into the table
MessageRewritesTable ==
  /\ pc = "dispatch"
  /\ \E sink \in SinkOutcomes :
       LET msg == last.msg
           r == on_message(msg, sink)
       IN  /\ pc' = NextPc(r, "loop")
           /\ exitStatus' = NextStatus(r)
           /\ conn' = IF Ends(r) THEN "closed" ELSE conn
           /\ nMsgs' = nMsgs + 1
           /\ nRouted' = IF msg.topic \in DOMAIN mapdict THEN nRouted + 1
                         ELSE nRouted
           /\ nSends' = nSends + Cardinality(Sends(r.events))
           /\ subscribed' = IF Ends(r) THEN FALSE ELSE subscribed
           /\ last' = Ran("on_message", msg, 0, r)
           /\ mapdict' = IF msg.topic \in DOMAIN mapdict
                         THEN [mapdict EXCEPT ![msg.topic] = @ \o KEYHOST]
                         ELSE mapdict
  /\ UNCHANGED <<keyfile, willSet, waits>>

\* on_message runs to its end
Message ==
  /\ pc = "dispatch"
  /\ \E sink \in SinkOutcomes :
       LET msg == last.msg
           r == on_message(msg, sink)
       IN  /\ pc' = NextPc(r, "loop")
           /\ exitStatus' = NextStatus(r)
           /\ conn' = IF Ends(r) THEN "closed" ELSE conn
           /\ nMsgs' = nMsgs + 1
           /\ nRouted' = IF msg.topic \in DOMAIN mapdict THEN nRouted + 1
                         ELSE nRouted
           /\ nSends' = nSends + Cardinality(Sends(r.events))
           /\ subscribed' = IF Ends(r) THEN FALSE ELSE subscribed
           /\ last' = Ran("on_message", msg, 0, r)
  /\ UNCHANGED <<keyfile, mapdict, willSet, waits>>

\* SIGTERM or SIGINT arrives: the interpreter runs cleanup(signum, frame)
\* in the main thread, wherever it is (inside on_message: SignalInMessage)
Signal ==
  /\ pc \notin {"load", "dispatch", "exited"}
  /\ \E signum \in Signals :
       LET r == cleanup(<<signum, "frame">>)
       IN  /\ pc' = NextPc(r, pc)
           /\ exitStatus' = NextStatus(r)
           /\ conn' = IF Ends(r) THEN "closed" ELSE conn
           /\ subscribed' = IF Ends(r) THEN FALSE ELSE subscribed
           /\ last' = Ran("cleanup", NoMsg, signum, r)
  /\ UNCHANGED <<keyfile, mapdict, willSet, waits, nMsgs, nRouted, nSends>>

\* SIGTERM or SIGINT arrives while on_message is at work on a message,
\* after the k-th of its effects
SignalInMessage ==
  /\ pc = "dispatch"
  /\ \E sink \in SinkOutcomes, signum \in Signals :
       LET msg == last.msg
           run == on_message(msg, sink)
       IN  \E k \in 0 .. Len(run.events) :
             LET r == interrupted(run, k, cleanup(<<signum, "frame">>))
             IN  /\ pc' = NextPc(r, "loop")
                 /\ exitStatus' = NextStatus(r)
                 /\ conn' = IF Ends(r) THEN "closed" ELSE conn
                 /\ subscribed' = IF Ends(r) THEN FALSE ELSE subscribed
                 /\ nMsgs' = nMsgs + 1
                 /\ nRouted' = IF msg.topic \in DOMAIN mapdict
                               THEN nRouted + 1 ELSE nRouted
                 /\ nSends' = nSends + Cardinality(Sends(r.events))
                 /\ last' = Ran("cleanup", msg, signum, r)
  /\ UNCHANGED <<keyfile, mapdict, willSet, waits>>

Next ==
  \/ LoadKeyMap
  \/ Connect
  \/ WakeConnect
  \/ ConnAck
  \/ Wake30
  \/ Drop
  \/ Wake5
  \/ Reconnect
  \/ Deliver
  \/ Message
  \/ Signal
  \/ SignalInMessage

Spec == Init /\ [][Next]_vars

\* the main thread is the only thread: a sleep ends, and loop_forever goes
\* on to its next step
FairSpec ==
  /\ Spec
  /\ WF_vars(WakeConnect)
  /\ WF_vars(Wake30)
  /\ WF_vars(Wake5)
  /\ WF_vars(Reconnect)

(***************************************************************************)
(* The properties.                                                         *)
(***************************************************************************)
Dispatched == last.handler = "on_message"

\* the send_to_zabbix calls of the last handler
LastSends == {last.events[i] : i \in Sends(last.events)}

LastLogs == {last.events[i] : i \in {j \in 1 .. Len(last.events) :
                                       last.events[j].op = "log"}}

\* the bridge is where a returned callback leaves it: in loop_forever, the
\* session up, the process alive
SessionUntouched == pc = "loop" /\ conn = "connected" /\ exitStatus = << >>

\* C1: dispatch never raises to its caller: whatever the message, the
\* routing-table value and the sink outcome, on_message returns normally,
\* the session is as before and the process is not terminated.
C1_DispatchNeverRaises ==
  Dispatched => last.exc = "none" /\ SessionUntouched

\* C2: for a routed message, a payload "ON" is forwarded to the sink with
\* value "1" (code point 49) and a payload "OFF" with value "0" (48).
C2_OnOffForwardedAsOneZero ==
  Dispatched =>
    \A e \in LastSends :
      /\ last.msg.payload.val = ON => e.value = <<49>>
      /\ last.msg.payload.val = OFF => e.value = <<48>>

\* C3: table construction fails for a source with a mapping value without
\* the "::" separator: no constructed routing table holds such a value.
C3_TableValuesHaveSeparator ==
  \A t \in DOMAIN mapdict : FindSeparator(mapdict[t], 1) # 0

\* C4: when a termination signal triggers shutdown the process exits with
\* status zero, which differs from the status of a fatal connect refusal.
C4_SignalExitsWithSuccess ==
  last.handler = "cleanup" =>
    exitStatus = <<0>> /\ exitStatus # <<UncaughtExit>>

\* a CONNACK with a refusal code other than 3 was the last thing handled
FatalRefusal == last.handler = "on_connect" /\ last.arg \notin {0, 3}

\* C5: after a fatal connect refusal (result code 1, 2, 4, 5 or an
\* unrecognized one) the process has terminated with a non-zero exit
\* status, and no connect attempt follows.
C5_FatalRefusalTerminates ==
  /\ [](FatalRefusal =>
          pc = "exited" /\ exitStatus # << >> /\ exitStatus # <<0>>)
  /\ [][FatalRefusal => last'.handler \notin {"connect", "reconnect"}]_vars

C5_Witness ==
  FatalRefusal /\ last.arg = 4 /\ pc = "exited" /\ exitStatus = <<1>>

\* a CONNACK with result code 3 was the last thing handled
TransientRefusal == last.handler = "on_connect" /\ last.arg = 3

\* the client has made a further connect attempt, the waits of 30 and 5
\* seconds behind it
RetriedAfterDelay ==
  /\ last.handler = "reconnect"
  /\ Len(waits) >= 2
  /\ waits[Len(waits) - 1] = 30
  /\ waits[Len(waits)] = 5

\* C6: after a transient connect refusal (result code 3) the process is
\* not terminated but waiting to connect again, and a further connect
\* attempt follows the fixed delay, unless a termination signal ends the
\* process first; so too after every consecutive transient refusal.
C6_TransientRefusalRetried ==
  /\ [](TransientRefusal =>
          pc = "sleep30" /\ exitStatus = << >> /\ conn # "connected")
  /\ (TransientRefusal ~> (RetriedAfterDelay \/ last.handler = "cleanup"))

\* the retry that follows the second of two consecutive transient refusals
C6_Witness == RetriedAfterDelay /\ waits = <<30, 5, 30, 5>>

\* C7: when the sink write for a routed message fails, the dispatcher logs
\* the failure at warning level and returns normally, the bridge left able
\* to process the next message.
C7_SendFailureLoggedAndSurvived ==
  (Dispatched /\ \E e \in LastSends : e.outcome # "ok") =>
    /\ \E l \in LastLogs : l.level = "warning"
    /\ last.exc = "none"
    /\ SessionUntouched

\* C8: a message whose topic is not a key of the routing table causes no
\* sink write and no error: on_message returns, the session is as before,
\* and the writes counted so far do not exceed the routed messages.
C8_UnroutedNeverWritten ==
  (Dispatched /\ last.msg.topic \notin DOMAIN mapdict) =>
    /\ LastSends = {}
    /\ last.exc = "none"
    /\ SessionUntouched
    /\ nSends <= nRouted

\* an unrouted message that follows a forwarded one
C8_Witness ==
  /\ Dispatched
  /\ last.msg.topic \notin DOMAIN mapdict
  /\ DOMAIN mapdict # {}
  /\ nMsgs = 2
  /\ nSends = 1

\* the host part of a raw value: what follows its first "::"
HostPart(raw) ==
  SubSeq(raw, FindSeparator(raw, 1) + 2, Len(raw))

\* C9: a forwarded metric of an entry with an empty host part ("KEY::")
\* has the configured default host, whatever the payload; one of an entry
\* with a host part has that host.  The table itself keeps the raw value
\* of the key file: the default is not stored in it.
C9_HostResolvedAtDispatch ==
  /\ \A t \in DOMAIN mapdict :
       \E i \in 1 .. Len(keyfile) : keyfile[i] = <<t, mapdict[t]>>
  /\ Dispatched =>
       \A e \in LastSends :
         LET raw == mapdict[last.msg.topic]
         IN  /\ FindSeparator(raw, 1) # 0
             /\ HostPart(raw) = << >> => e.host = KEYHOST
             /\ HostPart(raw) # << >> => e.host = HostPart(raw)
             /\ e.key \o <<":", ":">> \o HostPart(raw) = raw

\* scenario B with a numeric payload: the hall light entry "light.hall::"
C9_Witness ==
  /\ Dispatched
  /\ last.msg.topic = "sensors/hall/light"
  /\ last.msg.topic \in DOMAIN mapdict
  /\ mapdict[last.msg.topic] = RowHall[2]
  /\ last.msg.payload.val = <<50, 49, 46, 53>>
  /\ \E e \in LastSends : e.host = KEYHOST /\ e.outcome = "ok"

\* str.encode("utf-8"): the bytes of a text
RECURSIVE encode(_)
encode(text) ==
  IF text = << >> THEN << >>
  ELSE LET c == text[1]
           head ==
             IF c < 128 THEN <<c>>
             ELSE IF c < 2048
               THEN <<192 + (c \div 64), 128 + (c % 64)>>
             ELSE IF c < 65536
               THEN <<224 + (c \div 4096), 128 + ((c \div 64) % 64),
                      128 + (c % 64)>>
             ELSE <<240 + (c \div 262144), 128 + ((c \div 4096) % 64),
                    128 + ((c \div 64) % 64), 128 + (c % 64)>>
       IN  head \o encode(Tail(text))

\* C10: for a routed message whose payload is valid UTF-8 and neither "ON"
\* nor "OFF", the value forwarded to the sink is the text of the payload,
\* unchanged: encoded again it gives the payload's bytes.
C10_OtherPayloadsPassThrough ==
  Dispatched =>
    \A e \in LastSends :
      last.msg.payload.val \notin {ON, OFF} =>
        encode(e.value) = last.msg.payload.val

\* the euro sign, three bytes, forwarded as the one character U+20AC
C10_Witness ==
  /\ Dispatched
  /\ last.msg.payload.val = <<226, 130, 172>>
  /\ \E e \in LastSends : e.value = <<8364>> /\ e.outcome = "ok"

\* cleanup ran as the handler of a termination signal
Signalled == last.handler = "cleanup"

\* the retained presence marker with the given payload
IsMarker(e, payload) ==
  /\ e.op = "publish"
  /\ e.topic = PRESENCETOPIC
  /\ e.payload = payload
  /\ e.retain

\* C11: on a shutdown request the bridge publishes the retained offline
\* marker "0" on the presence topic before it closes the broker session,
\* the process exits only after both, and no "1" marker is published after
\* that "0", neither by the handler nor by anything after it.
C11_OfflineMarkerBeforeClose ==
  /\ [](Signalled =>
          /\ pc = "exited"
          /\ \E i, j \in 1 .. Len(last.events) :
               /\ i < j
               /\ IsMarker(last.events[i], "0")
               /\ last.events[j].op = "disconnect"
               /\ \A k \in (i + 1) .. Len(last.events) :
                    ~IsMarker(last.events[k], "1"))
  /\ [][Signalled => last' = last]_vars

\* a signal while the session is up and the loop idle
C11_Witness ==
  /\ Signalled
  /\ last.msg = NoMsg
  /\ last.arg = SIGTERM
  /\ \E i \in 1 .. Len(last.events) :
       IsMarker(last.events[i], "0") /\ last.events[i].online

\* C12: every entry into Connected publishes the retained presence marker
\* "1" and then subscribes to the inbound topic pattern, and no message is
\* handed to on_message in a session whose subscription has not been issued.
C12_ConnectedAnnouncesThenSubscribes ==
  /\ [][(conn # "connected" /\ conn' = "connected") =>
          \E i, j \in 1 .. Len(last'.events) :
            /\ i < j
            /\ IsMarker(last'.events[i], "1")
            /\ last'.events[j] = Subscribe]_vars
  /\ [](conn = "connected" => subscribed)
  /\ [](pc = "dispatch" => conn = "connected" /\ subscribed)

\* the handshake accepted again, after a session that carried a message
C12_Witness ==
  /\ last.handler = "on_connect"
  /\ last.arg = 0
  /\ conn = "connected"
  /\ subscribed
  /\ nMsgs = 1

\* C13: the last will (retained "0" on the presence topic) is registered
\* before every connect call that connect() makes, the first and each one
\* of a retry.
C13_WillBeforeConnect ==
  /\ last.handler = "connect" =>
       /\ Issued(last.events, "connect")
       /\ \A j \in 1 .. Len(last.events) :
            last.events[j].op = "connect" =>
              \E i \in 1 .. (j - 1) :
                /\ last.events[i].op = "will_set"
                /\ last.events[i].topic = PRESENCETOPIC
                /\ last.events[i].payload = "0"
                /\ last.events[i].retain
  /\ conn # "closed" => willSet

\* connect() back from its second retry, the broker reached
C13_Witness ==
  last.handler = "connect" /\ waits = <<10, 10>> /\ conn = "awaiting"

\* on_disconnect was called for a session that was lost
UnexpectedDrop == last.handler = "on_disconnect" /\ last.arg \in {1, 7}

\* C14: on an unexpected session drop the bridge is not terminated but
\* waits to connect again: it publishes no offline marker, a connect
\* attempt follows (unless a termination signal ends the process first),
\* and no message is handed to on_message while the session is down.
C14_DropLeadsToReconnect ==
  /\ [](UnexpectedDrop =>
          /\ pc \in {"sleep5", "loop"}
          /\ exitStatus = << >>
          /\ conn = "closed"
          /\ ~Issued(last.events, "publish"))
  /\ [](pc = "dispatch" => conn = "connected")
  /\ (UnexpectedDrop ~> (last.handler = "reconnect" \/ Signalled))

\* the connect attempt that follows the drop of a session with a message
C14_Witness ==
  /\ last.handler = "reconnect"
  /\ waits = <<5>>
  /\ conn = "awaiting"
  /\ nMsgs = 1

\* the info-level "Sending" entries among the first n effects of the last
\* handler, for the message it handled
SendingLogged(n, host, key) ==
  \E i \in 1 .. n :
    /\ last.events[i].op = "log"
    /\ last.events[i].level = "info"
    /\ last.events[i].text = "Sending"
    /\ last.events[i].topic = last.msg.topic
    /\ last.events[i].host = host
    /\ last.events[i].key = key

\* the message handled last is in the routing table and its payload is not
\* valid UTF-8
RoutedUndecodable ==
  /\ Dispatched
  /\ last.msg.topic \in DOMAIN mapdict
  /\ last.msg.payload.kind = "bytes"
  /\ ~decode(last.msg.payload.val).ok

\* C15: a routed message whose payload is not valid UTF-8 is dropped: no
\* sink write is performed for it and the decoding error is reported.
C15_UndecodableDropped ==
  RoutedUndecodable =>
    /\ LastSends = {}
    /\ \E i \in 1 .. Len(last.events) :
         last.events[i] = PrintExc("UnicodeDecodeError")

\* C16 as stated: an info-level forwarding log entry is made only after a
\* successful sink write for the same message, and a message whose
\* transform or send fails produces no such entry.
C16_LoggedOnlyAfterSuccess ==
  Dispatched =>
    \A j \in 1 .. Len(last.events) :
      (last.events[j].op = "log" /\ last.events[j].text = "Sending") =>
        \E i \in 1 .. (j - 1) :
          last.events[i].op = "send" /\ last.events[i].outcome = "ok"

\* C16, amended: the info-level forwarding log entry (topic, payload,
\* resolved host, key) is made before the payload is decoded and before
\* the sink write is attempted: every sink write is preceded by the entry
\* for the same message, host and key, and a message whose decoding or
\* send fails has produced the entry all the same.
C16_LoggedBeforeAttempt ==
  Dispatched =>
    /\ \A j \in Sends(last.events) :
         SendingLogged(j - 1, last.events[j].host, last.events[j].key)
    /\ (last.exc \in {"UnicodeDecodeError", "OSError"}
          \/ \E e \in LastSends : e.outcome = "false") =>
         \E i \in 1 .. Len(last.events) :
           /\ last.events[i].op = "log"
           /\ last.events[i].text = "Sending"
           /\ last.events[i].topic = last.msg.topic

\* an undecodable payload: logged as being sent, never sent
C16_Witness ==
  /\ RoutedUndecodable
  /\ last.exc = "UnicodeDecodeError"
  /\ LastSends = {}
  /\ SendingLogged(Len(last.events), KEYHOST,
                   <<"l", "i", "g", "h", "t", ".", "h", "a", "l", "l">>)

\* a message was, wholly or in part, handled by the last handler
Handled == Dispatched \/ (Signalled /\ last.msg # NoMsg)

\* C17: at-most-once forwarding: the handling of one inbound message makes
\* zero or one sink write, a failed send is not tried again, and the
\* number of sink writes never exceeds the number of routed messages
\* received.
C17_AtMostOnce ==
  /\ [](Handled => Cardinality(Sends(last.events)) <= 1)
  /\ [](nSends <= nRouted /\ nRouted <= nMsgs)
  /\ [][nSends' # nSends =>
          nSends' = nSends + 1 /\ nMsgs' = nMsgs + 1]_vars

\* the second routed message, its one send refused by the sink
C17_Witness ==
  /\ Dispatched
  /\ nMsgs = 2
  /\ nRouted = 2
  /\ nSends = 2
  /\ \E e \in LastSends : e.outcome = "false"

\* C18: the routing table is never modified after it is built at startup:
\* every connect result, disconnect notice, reconnect, inbound message
\* (failed dispatches included) and shutdown leaves the topic-to-value
\* mapping as KeyMap built it from the key file.
C18_TableReadOnly ==
  /\ [][pc # "load" => mapdict' = mapdict]_vars
  /\ [](pc # "load" => mapdict = KeyMap(keyfile).mapdict)

\* a shutdown after two messages, one of them forwarded, the table of two
\* entries as it was loaded
C18_Witness ==
  /\ Signalled
  /\ nMsgs = 2
  /\ nSends >= 1
  /\ Cardinality(DOMAIN mapdict) = 2
  /\ mapdict = KeyMap(keyfile).mapdict

\* C19: after a non-transient connect refusal the bridge publishes nothing
\* further: no presence marker ("1" or "0") is published and no
\* subscription is issued between the refusal and the end of the process.
C19_NothingPublishedAfterRefusal ==
  /\ [](FatalRefusal =>
          /\ ~Issued(last.events, "publish")
          /\ ~Issued(last.events, "subscribe")
          /\ ~subscribed
          /\ pc = "exited")
  /\ [][FatalRefusal => UNCHANGED vars]_vars

\* an unrecognized refusal code, the process gone
C19_Witness ==
  /\ FatalRefusal
  /\ last.arg = 6
  /\ last.exc = "TypeError"
  /\ Issued(last.events, "log")
  /\ pc = "exited"

\* C20: a termination signal, whenever its handler is installed and
\* wherever it arrives (before the handshake, during a retry wait, in the
\* middle of on_message's try block), runs cleanup to its end and ends the
\* process with the signal's number; the except clause of on_message does
\* not catch the exit, and no message is dispatched and no connect
\* attempted afterwards.
C20_SignalAlwaysEndsProcess ==
  /\ [](Signalled =>
          /\ pc = "exited"
          /\ exitStatus = <<last.arg>>
          /\ last.arg \in Signals
          /\ last.exc = "none"
          /\ \E i \in 1 .. Len(last.events) :
               last.events[i] = Log("info", "Exiting on signal")
          /\ \A i \in 1 .. Len(last.events) :
               last.events[i] # PrintExc("SystemExit"))
  /\ [][Signalled =>
          /\ nMsgs' = nMsgs
          /\ last'.handler \notin {"deliver", "on_message", "connect",
                                   "reconnect"}]_vars

\* SIGINT after the sink write of a message, before on_message returns
C20_Witness ==
  /\ Signalled
  /\ last.msg # NoMsg
  /\ last.arg = SIGINT
  /\ Issued(last.events, "send")
  /\ exitStatus = <<SIGINT>>

=============================================================================
